---------------------------- MODULE Spec2Model ----------------------------
(***************************************************************************)
(* A model of the tax planner: src/unnamed/part_000 (fmt, parseNum) and    *)
(* src/features/tax-planner/TaxPlanner2026.tsx (the component's state, its *)
(* memoized derivations and the choice of the best scenario).              *)
(*                                                                         *)
(* Strings are sequences of one-character strings; the no-break space is   *)
(* the token "NBSP" and the tabulator the token "TAB".                     *)
(*                                                                         *)
(* A JavaScript number is a record [k, m, e]:                              *)
(*   k = "nan"                      NaN                                    *)
(*   k = "inf", m = 1 or -1         +Infinity, -Infinity                   *)
(*   k = "fin"                      the decimal m * 10^e, normalised so    *)
(*                                  that m has no trailing zero (0 is      *)
(*                                  m = 0, e = 0)                          *)
(* Finite arithmetic is exact decimal arithmetic: the rounding of a        *)
(* binary64 result to 53 bits is not modelled, nor is the sign of zero.    *)
(* NaN, the infinities and overflow to infinity are modelled, with the     *)
(* IEEE 754 rules JavaScript follows.                                      *)
(***************************************************************************)
EXTENDS Integers, Sequences, FiniteSets, TLC

\* ----------------------------------------------------------------- bounds

\* Longest string the parser specification enumerates.
MaxLen == 4

\* Number of object identities in the pool a fresh `totals` object draws from.
NumRefs == 2

\* ---------------------------------------------------------------- numbers

NaN == [k |-> "nan", m |-> 0, e |-> 0]

PosInf == [k |-> "inf", m |-> 1, e |-> 0]

NegInf == [k |-> "inf", m |-> -1, e |-> 0]

Zero == [k |-> "fin", m |-> 0, e |-> 0]

Abs(i) == IF i < 0 THEN -i ELSE i

Sign(i) == IF i < 0 THEN -1 ELSE IF i > 0 THEN 1 ELSE 0

Min(i, j) == IF i < j THEN i ELSE j

RECURSIVE Pow10(_)
Pow10(n) == IF n <= 0 THEN 1 ELSE 10 * Pow10(n - 1)

\* Number of decimal digits of a natural number (0 has one digit).
RECURSIVE NumDigits(_)
NumDigits(i) == IF i < 10 THEN 1 ELSE 1 + NumDigits(i \div 10)

\* The first nine significant digits of a positive mantissa, right-padded.
Lead9(i) ==
  IF NumDigits(i) >= 9 THEN i \div Pow10(NumDigits(i) - 9)
  ELSE i * Pow10(9 - NumDigits(i))

\* m * 10^e with the trailing zeros of m moved into the exponent.
RECURSIVE Normalise(_, _)
Normalise(m, e) ==
  IF m = 0 THEN Zero
  ELSE IF m % 10 = 0 THEN Normalise(m \div 10, e + 1)
  ELSE [k |-> "fin", m |-> m, e |-> e]

\* The decimal order of magnitude of a finite number other than zero.
Magnitude(n) == NumDigits(Abs(n.m)) + n.e

\* The binary64 range: a magnitude of 1.7976931348623158e308 or more rounds
\* to an infinity, one of 2.4703282292062327e-324 or less rounds to zero.
Range(n) ==
  IF n.m = 0 THEN Zero
  ELSE IF Magnitude(n) > 309
          \/ (Magnitude(n) = 309 /\ Lead9(Abs(n.m)) >= 179769314)
    THEN [k |-> "inf", m |-> Sign(n.m), e |-> 0]
  ELSE IF Magnitude(n) < -323
          \/ (Magnitude(n) = -323 /\ Lead9(Abs(n.m)) <= 247032822)
    THEN Zero
  ELSE n

\* The number m * 10^e.
Finite(m, e) == Range(Normalise(m, e))

Int2Num(i) == Finite(i, 0)

IsNaN(x) == x.k = "nan"

\* The sum of two finite numbers, their mantissas aligned at exponent lo.
AlignedSum(a, b, lo) ==
  Finite(a.m * Pow10(a.e - lo) + b.m * Pow10(b.e - lo), lo)

\* a + b
Add(a, b) ==
  IF IsNaN(a) \/ IsNaN(b) THEN NaN
  ELSE IF a.k = "inf" /\ b.k = "inf" THEN (IF a.m = b.m THEN a ELSE NaN)
  ELSE IF a.k = "inf" THEN a
  ELSE IF b.k = "inf" THEN b
  ELSE IF a.m = 0 THEN b
  ELSE IF b.m = 0 THEN a
  \* an operand below half a unit in the last place of the other (2^-54 of
  \* it) is absorbed
  ELSE IF Magnitude(a) - Magnitude(b) >= 18 THEN a
  ELSE IF Magnitude(b) - Magnitude(a) >= 18 THEN b
  ELSE AlignedSum(a, b, Min(a.e, b.e))

Neg(a) == [a EXCEPT !.m = -a.m]

\* a - b
Sub(a, b) == Add(a, Neg(b))

\* a * b
Mul(a, b) ==
  IF IsNaN(a) \/ IsNaN(b) THEN NaN
  ELSE IF a.k = "inf" \/ b.k = "inf"
    THEN (IF a.m = 0 \/ b.m = 0 THEN NaN
          ELSE [k |-> "inf", m |-> Sign(a.m) * Sign(b.m), e |-> 0])
  ELSE Finite(a.m * b.m, a.e + b.e)

\* a < b for finite numbers of one sign and one magnitude.
AlignedLess(a, b, lo) == a.m * Pow10(a.e - lo) < b.m * Pow10(b.e - lo)

\* a < b: false when either is NaN.
Lt(a, b) ==
  IF IsNaN(a) \/ IsNaN(b) THEN FALSE
  ELSE IF a.k = "inf" THEN a.m = -1 /\ ~(b.k = "inf" /\ b.m = -1)
  ELSE IF b.k = "inf" THEN b.m = 1
  ELSE IF Sign(a.m) # Sign(b.m) THEN Sign(a.m) < Sign(b.m)
  ELSE IF a.m = 0 THEN FALSE
  ELSE IF Magnitude(a) # Magnitude(b)
    THEN (IF a.m > 0 THEN Magnitude(a) < Magnitude(b)
          ELSE Magnitude(b) < Magnitude(a))
  ELSE AlignedLess(a, b, Min(a.e, b.e))

\* a > b
Gt(a, b) == Lt(b, a)

\* a <= b and a >= b: false when either is NaN.
Le(a, b) == ~IsNaN(a) /\ ~IsNaN(b) /\ ~Lt(b, a)

Ge(a, b) == Le(b, a)

MathMaxNoFloor(a, b) == b

\* Math.max(a, b): NaN when either is NaN.
MathMax(a, b) ==
  IF IsNaN(a) \/ IsNaN(b) THEN NaN
  ELSE IF Lt(a, b) THEN b ELSE a

\* ---------------------------------------------------------------- strings

Digit == {"0", "1", "2", "3", "4", "5", "6", "7", "8", "9"}

HexDigit == Digit \cup {"a", "b", "c", "d", "e", "f", "A", "B", "C", "D", "E", "F"}

DigitChar == <<"0", "1", "2", "3", "4", "5", "6", "7", "8", "9">>

DigitVal(c) ==
  CASE c = "0" -> 0 [] c = "1" -> 1 [] c = "2" -> 2 [] c = "3" -> 3
    [] c = "4" -> 4 [] c = "5" -> 5 [] c = "6" -> 6 [] c = "7" -> 7
    [] c = "8" -> 8 [] c = "9" -> 9
    [] c \in {"a", "A"} -> 10 [] c \in {"b", "B"} -> 11
    [] c \in {"c", "C"} -> 12 [] c \in {"d", "D"} -> 13
    [] c \in {"e", "E"} -> 14 [] c \in {"f", "F"} -> 15

\* The characters the class \s matches and Number() trims; "NBSP" is U+00A0,
\* which \s holds already.
WhiteSpace == {" ", "TAB", "LF", "CR", "NBSP"}

\* The least element of a set of indices, 0 when it is empty.
First(idx) == IF idx = {} THEN 0 ELSE CHOOSE i \in idx : \A j \in idx : i <= j

\* Index of the first element of s in set C, 0 when there is none.
IndexOf(s, C) == First({i \in 1..Len(s) : s[i] \in C})

\* The parts of s before and after index i; all of s and nothing when i = 0.
Before(s, i) == IF i = 0 THEN s ELSE SubSeq(s, 1, i - 1)

After(s, i) == IF i = 0 THEN <<>> ELSE SubSeq(s, i + 1, Len(s))

AllIn(s, C) == \A i \in 1..Len(s) : s[i] \in C

\* The value of the first n digits of s in the given base.
RECURSIVE DigitsPrefix(_, _, _)
DigitsPrefix(s, n, base) ==
  IF n = 0 THEN 0 ELSE DigitsPrefix(s, n - 1, base) * base + DigitVal(s[n])

DigitsValue(s, base) == DigitsPrefix(s, Len(s), base)

RECURSIVE IntToDigits(_)
IntToDigits(i) ==
  IF i < 10 THEN <<DigitChar[i + 1]>>
  ELSE IntToDigits(i \div 10) \o <<DigitChar[(i % 10) + 1]>>

Zeros(n) == [i \in 1..n |-> "0"]

\* Number of "0" characters at the end of the first n characters of s.
RECURSIVE TrailingZeros(_, _)
TrailingZeros(s, n) ==
  IF n > 0 /\ s[n] = "0" THEN 1 + TrailingZeros(s, n - 1) ELSE 0

\* String.prototype.replace(/[\s\u00A0]/g, ""): every match is removed.
RemoveWhiteSpace(s) == SelectSeq(s, LAMBDA c : c \notin WhiteSpace)

\* The string with the character at index i, if any, replaced by ".".
ReplaceAt(s, i) == IF i = 0 THEN s ELSE [s EXCEPT ![i] = "."]

\* String.prototype.replace(",", "."): a string pattern replaces the first
\* occurrence only.
ReplaceFirstComma(s) == ReplaceAt(s, IndexOf(s, {","}))

\* The exponent part e+n, e-n of Number::toString.
ExponentString(n) ==
  <<"e", IF n < 0 THEN "-" ELSE "+">> \o IntToDigits(Abs(n))

\* Number::toString, radix 10, of the k digits ds with the decimal point
\* after the n-th.
Layout(ds, k, n) ==
  IF k <= n /\ n <= 21 THEN ds \o Zeros(n - k)
  ELSE IF 0 < n /\ n <= 21
    THEN SubSeq(ds, 1, n) \o <<".">> \o SubSeq(ds, n + 1, k)
  ELSE IF -6 < n /\ n <= 0 THEN <<"0", ".">> \o Zeros(-n) \o ds
  ELSE IF k = 1 THEN ds \o ExponentString(n - 1)
  ELSE <<ds[1], ".">> \o SubSeq(ds, 2, k) \o ExponentString(n - 1)

DecimalString(ds, e) == Layout(ds, Len(ds), Len(ds) + e)

\* Number.prototype.toString of a number (ECMA-262 Number::toString).
RECURSIVE NumberToString(_)
NumberToString(x) ==
  IF IsNaN(x) THEN <<"N", "a", "N">>
  ELSE IF x.k = "fin" /\ x.m = 0 THEN <<"0">>
  ELSE IF x.m < 0 THEN <<"-">> \o NumberToString(Neg(x))
  ELSE IF x.k = "inf" THEN <<"I", "n", "f", "i", "n", "i", "t", "y">>
  ELSE DecimalString(IntToDigits(x.m), x.e)

\* SignedInteger of an ExponentPart: digits with an optional sign.
Unsigned(s) == IF s # <<>> /\ s[1] \in {"+", "-"} THEN Tail(s) ELSE s

IsSignedInteger(s) == Unsigned(s) # <<>> /\ AllIn(Unsigned(s), Digit)

SignedValue(s) ==
  IF s # <<>> /\ s[1] = "-" THEN -DigitsValue(Unsigned(s), 10)
  ELSE DigitsValue(Unsigned(s), 10)

\* The number digits * 10^e, the z trailing zeros of the digits moved to
\* the exponent.
Significant(digits, z, e) ==
  Finite(DigitsPrefix(digits, Len(digits) - z, 10), e + z)

\* The value of integer part ip, fraction part fp and exponent part expo
\* (hasExp: there is an exponent indicator); NaN when they are no literal.
DecimalParts(ip, fp, expo, hasExp) ==
  IF /\ AllIn(ip, Digit) /\ AllIn(fp, Digit) /\ Len(ip) + Len(fp) > 0
     /\ (hasExp => IsSignedInteger(expo))
    THEN Significant(ip \o fp, TrailingZeros(ip \o fp, Len(ip) + Len(fp)),
                     SignedValue(expo) - Len(fp))
  ELSE NaN

\* The value of mantissa `mant` and exponent part `expo`.
DecimalLiteral(mant, expo, hasExp) ==
  DecimalParts(Before(mant, IndexOf(mant, {"."})),
               After(mant, IndexOf(mant, {"."})), expo, hasExp)

\* StrUnsignedDecimalLiteral (ECMA-262 StringToNumber): Infinity, or digits
\* with an optional fraction and an optional exponent; NaN otherwise.
UnsignedDecimal(s) ==
  IF s = <<"I", "n", "f", "i", "n", "i", "t", "y">> THEN PosInf
  ELSE DecimalLiteral(Before(s, IndexOf(s, {"e", "E"})),
                      After(s, IndexOf(s, {"e", "E"})),
                      IndexOf(s, {"e", "E"}) # 0)

\* The digits of a NonDecimalIntegerLiteral in the given base.
BaseDigits(body, digits, base) ==
  IF AllIn(body, digits) THEN Int2Num(DigitsValue(body, base)) ELSE NaN

\* NonDecimalIntegerLiteral: 0x, 0o, 0b literals, unsigned.
NonDecimal(s) ==
  IF s[2] \in {"x", "X"} THEN BaseDigits(SubSeq(s, 3, Len(s)), HexDigit, 16)
  ELSE IF s[2] \in {"o", "O"}
    THEN BaseDigits(SubSeq(s, 3, Len(s)), {"0", "1", "2", "3", "4", "5", "6", "7"}, 8)
  ELSE BaseDigits(SubSeq(s, 3, Len(s)), {"0", "1"}, 2)

\* The string with its leading and trailing white space removed.
RECURSIVE Trim(_)
Trim(s) ==
  IF s # <<>> /\ s[1] \in WhiteSpace THEN Trim(Tail(s))
  ELSE IF s # <<>> /\ s[Len(s)] \in WhiteSpace THEN Trim(SubSeq(s, 1, Len(s) - 1))
  ELSE s

\* StrNumericLiteral: the value of a trimmed string. The empty string is 0.
StrNumericLiteral(s) ==
  IF s = <<>> THEN Zero
  ELSE IF Len(s) >= 3 /\ s[1] = "0" /\ s[2] \in {"x", "X", "o", "O", "b", "B"}
    THEN NonDecimal(s)
  ELSE IF s[1] = "-" THEN Neg(UnsignedDecimal(Tail(s)))
  ELSE IF s[1] = "+" THEN UnsignedDecimal(Tail(s))
  ELSE UnsignedDecimal(s)

\* Number(string): ECMA-262 StringToNumber.
StringToNumber(str) == StrNumericLiteral(Trim(str))

\* ----------------------------------------------------- src/unnamed/part_000

\* The values of type string | number | null | undefined.
Null == [t |-> "null", s |-> <<>>, n |-> Zero]

Undefined == [t |-> "undefined", s |-> <<>>, n |-> Zero]

Str(s) == [t |-> "string", s |-> s, n |-> Zero]

Num(n) == [t |-> "number", s |-> <<>>, n |-> n]

\* String(v) of a string or a number.
String(v) == IF v.t = "string" THEN v.s ELSE NumberToString(v.n)

cleanedString(v) == ReplaceFirstComma(RemoveWhiteSpace(String(v)))

\* isNaN(number) ? 0 : number
unlessNaN(number) == IF IsNaN(number) THEN Zero ELSE number

parseNumNoNaNCheck(v) ==
  IF v = Undefined \/ v = Null \/ v = Str(<<>>) THEN Zero
  ELSE StringToNumber(cleanedString(v))

parseNum(v) ==
  IF v = Undefined \/ v = Null \/ v = Str(<<>>) THEN Zero
  ELSE unlessNaN(StringToNumber(cleanedString(v)))

\* -------------------------- src/features/tax-planner/TaxPlanner2026.tsx

VARIABLES
  revTrainings, revCamps, revRoyalty, revGoods,      \* useState, step 1
  usnProfitExpenses, ausnProfitExpenses,             \* useState, step 2
  prevYearRevenue, vatThreshold, psnPatentCost,      \* useState, step 3
  totals, usn6, usn15, ausn8, ausn20,                \* the useMemo values
  hooks,                 \* the dependency list each useMemo hook has stored
  isVatPayer, best,      \* computed in every render
  arg, ret, pc           \* a call of parseNum: its argument and its result

fieldVars ==
  <<revTrainings, revCamps, revRoyalty, revGoods, usnProfitExpenses,
    ausnProfitExpenses, prevYearRevenue, vatThreshold, psnPatentCost>>

renderVars == <<totals, usn6, usn15, ausn8, ausn20, hooks, isVatPayer, best>>

callVars == <<arg, ret, pc>>

vars == <<fieldVars, renderVars, callVars>>

\* The nine input fields as one record.
Fields ==
  [revTrainings |-> revTrainings, revCamps |-> revCamps,
   revRoyalty |-> revRoyalty, revGoods |-> revGoods,
   usnProfitExpenses |-> usnProfitExpenses,
   ausnProfitExpenses |-> ausnProfitExpenses,
   prevYearRevenue |-> prevYearRevenue, vatThreshold |-> vatThreshold,
   psnPatentCost |-> psnPatentCost]

\* The useState initial values.
InitialFields ==
  [revTrainings |-> <<"8", "0", "0", "0", "0", "0", "0">>,
   revCamps |-> <<"0">>,
   revRoyalty |-> <<"6", "0", "0", "0", "0", "0", "0">>,
   revGoods |-> <<"1", "0", "0", "0", "0", "0", "0">>,
   usnProfitExpenses |-> <<"1", "2", "0", "0", "0", "0", "0">>,
   ausnProfitExpenses |-> <<"1", "2", "0", "0", "0", "0", "0">>,
   prevYearRevenue |-> <<"1", "5", "0", "0", "0", "0", "0", "0">>,
   vatThreshold |-> <<"1", "0", "0", "0", "0", "0", "0", "0">>,
   psnPatentCost |-> <<"2", "0", "0", "0", "0", "0">>]

VAT22 == Finite(22, -2)

\* const VAT5 = 0.05
VAT5 == Finite(5, -2)

\* useMemo(() => fresh, deps): the stored value while every dependency is
\* the same (Object.is) as at the previous render, a fresh one otherwise.
useMemo(prevValue, prevDeps, deps, fresh) ==
  IF deps = prevDeps THEN prevValue ELSE fresh

\* The object `totals` holds; ref is its identity.
totalsObject(ref, trainings, camps, royalty, goods, sport, taxable) ==
  [ref |-> ref, trainings |-> trainings, camps |-> camps,
   royalty |-> royalty, goods |-> goods,
   sport |-> sport, taxable |-> taxable, total |-> Add(sport, taxable)]

sumTotals(ref, trainings, camps, royalty, goods) ==
  totalsObject(ref, trainings, camps, royalty, goods,
               Add(trainings, camps), Add(royalty, goods))

\* The callback of `totals`.
computeTotals(f, ref) ==
  sumTotals(ref, parseNum(Str(f.revTrainings)), parseNum(Str(f.revCamps)),
            parseNum(Str(f.revRoyalty)), parseNum(Str(f.revGoods)))

computeIsVatPayerGe(f) ==
  Ge(parseNum(Str(f.prevYearRevenue)), parseNum(Str(f.vatThreshold)))

\* const isVatPayer = parseNum(prevYearRevenue) > parseNum(vatThreshold)
computeIsVatPayer(f) ==
  Gt(parseNum(Str(f.prevYearRevenue)), parseNum(Str(f.vatThreshold)))

\* The scenario objects. The keys of `components` stand for the labels of
\* the source (in Russian there): patent is the patent cost, usn the line
\* of USN 6% or USN 15%, vat the line of VAT 5%, ausn the line of AUSN 8% or
\* AUSN 20%. The display label is left out.
usnScenarioNoVatInTotal(key, patentCost, usnTax, vat) ==
  [key |-> key,
   components |-> [patent |-> parseNum(Str(patentCost)), usn |-> usnTax, vat |-> vat],
   totalTax |-> Add(parseNum(Str(patentCost)), usnTax)]

usnScenario(key, patentCost, usnTax, vat) ==
  [key |-> key,
   components |-> [patent |-> parseNum(Str(patentCost)), usn |-> usnTax, vat |-> vat],
   totalTax |-> Add(Add(parseNum(Str(patentCost)), usnTax), vat)]

ausnScenario(key, tax) ==
  [key |-> key, components |-> [ausn |-> tax], totalTax |-> tax]

computeVatOnTotal(tot, vatPayer) ==
  IF vatPayer THEN Mul(tot.total, VAT5) ELSE Zero

\* const vat = isVatPayer ? totals.taxable * VAT5 : 0
computeVat(tot, vatPayer) ==
  IF vatPayer THEN Mul(tot.taxable, VAT5) ELSE Zero

\* The callbacks of usn6, usn15, ausn8 and ausn20.
computeUsn6(tot, patentCost, vatPayer) ==
  usnScenario("usn6", patentCost, Mul(tot.taxable, Finite(6, -2)),
              computeVat(tot, vatPayer))

computeUsn15(tot, patentCost, expenses, vatPayer) ==
  usnScenario("usn15", patentCost,
              Mul(MathMax(Zero, Sub(tot.taxable, parseNum(Str(expenses)))),
                  Finite(15, -2)),
              computeVat(tot, vatPayer))

computeAusn8(tot) == ausnScenario("ausn8", Mul(tot.total, Finite(8, -2)))

computeAusn20(tot, expenses) ==
  ausnScenario("ausn20",
               Mul(MathMax(Zero, Sub(tot.total, parseNum(Str(expenses)))),
                   Finite(20, -2)))

\* The dependency lists; an object dependency is compared by identity.
totalsDeps(f) == <<f.revTrainings, f.revCamps, f.revRoyalty, f.revGoods>>

usn6Deps(tot, f, vatPayer) == <<tot.ref, f.psnPatentCost, vatPayer>>

usn15DepsNoExpenses(tot, f, vatPayer) == <<tot.ref, f.psnPatentCost, vatPayer>>

usn15Deps(tot, f, vatPayer) ==
  <<tot.ref, f.psnPatentCost, f.usnProfitExpenses, vatPayer>>

ausn8Deps(tot) == <<tot.ref>>

ausn20Deps(tot, f) == <<tot.ref, f.ausnProfitExpenses>>

\* The callback of scenarios.reduce.
pickFirstOnTie(a, b) == IF Le(a.totalTax, b.totalTax) THEN a ELSE b

pick(a, b) == IF Lt(a.totalTax, b.totalTax) THEN a ELSE b

\* Array.prototype.reduce without an initial value, from index i on.
RECURSIVE reduceFrom(_, _, _)
reduceFrom(s, acc, i) ==
  IF i > Len(s) THEN acc ELSE reduceFrom(s, pick(acc, s[i]), i + 1)

reduce(s) == reduceFrom(s, s[1], 2)

\* What a render leaves: the values, the dependency lists the hooks store,
\* and the best of const scenarios = [usn6, usn15, ausn8, ausn20].
rendered(f, tot, vatPayer, u6, u15, a8, a20) ==
  [totals |-> tot, isVatPayer |-> vatPayer,
   usn6 |-> u6, usn15 |-> u15, ausn8 |-> a8, ausn20 |-> a20,
   hooks |-> [totals |-> totalsDeps(f),
              usn6 |-> usn6Deps(tot, f, vatPayer),
              usn15 |-> usn15Deps(tot, f, vatPayer),
              ausn8 |-> ausn8Deps(tot),
              ausn20 |-> ausn20Deps(tot, f)],
   best |-> reduce(<<u6, u15, a8, a20>>)]

\* The four scenario hooks, given `totals` and isVatPayer of this render.
renderScenarios(f, prev, tot, vatPayer) ==
  rendered(f, tot, vatPayer,
    useMemo(prev.usn6, prev.hooks.usn6, usn6Deps(tot, f, vatPayer),
            computeUsn6(tot, f.psnPatentCost, vatPayer)),
    useMemo(prev.usn15, prev.hooks.usn15, usn15Deps(tot, f, vatPayer),
            computeUsn15(tot, f.psnPatentCost, f.usnProfitExpenses, vatPayer)),
    useMemo(prev.ausn8, prev.hooks.ausn8, ausn8Deps(tot), computeAusn8(tot)),
    useMemo(prev.ausn20, prev.hooks.ausn20, ausn20Deps(tot, f),
            computeAusn20(tot, f.ausnProfitExpenses)))

\* One run of the component function with the fields f, given the values
\* and dependency lists the hooks hold from the previous render.
Render(f, prev) ==
  renderScenarios(f, prev,
    useMemo(prev.totals, prev.hooks.totals, totalsDeps(f),
            computeTotals(f, (prev.totals.ref + 1) % NumRefs)),
    computeIsVatPayer(f))

\* What the hooks hold before the first render: nothing.
Unmounted ==
  [totals |-> [ref |-> NumRefs - 1], usn6 |-> Zero, usn15 |-> Zero,
   ausn8 |-> Zero, ausn20 |-> Zero,
   hooks |-> [totals |-> <<>>, usn6 |-> <<>>, usn15 |-> <<>>,
              ausn8 |-> <<>>, ausn20 |-> <<>>]]

\* What the hooks hold now.
Mounted ==
  [totals |-> totals, usn6 |-> usn6, usn15 |-> usn15, ausn8 |-> ausn8,
   ausn20 |-> ausn20, hooks |-> hooks]

\* const scenarios = [usn6, usn15, ausn8, ausn20]
scenarios == <<usn6, usn15, ausn8, ausn20>>

\* The state after a render of fields f with result r.
Commit(f, r) ==
  /\ revTrainings' = f.revTrainings
  /\ revCamps' = f.revCamps
  /\ revRoyalty' = f.revRoyalty
  /\ revGoods' = f.revGoods
  /\ usnProfitExpenses' = f.usnProfitExpenses
  /\ ausnProfitExpenses' = f.ausnProfitExpenses
  /\ prevYearRevenue' = f.prevYearRevenue
  /\ vatThreshold' = f.vatThreshold
  /\ psnPatentCost' = f.psnPatentCost
  /\ totals' = r.totals
  /\ usn6' = r.usn6
  /\ usn15' = r.usn15
  /\ ausn8' = r.ausn8
  /\ ausn20' = r.ausn20
  /\ hooks' = r.hooks
  /\ isVatPayer' = r.isVatPayer
  /\ best' = r.best

\* A state update: the render with the new fields f.
update(f) == Commit(f, Render(f, Mounted))

\* Field's onChange: the state setter with the typed text, then the render
\* it schedules. A setter called with the current value renders nothing.
onChange(name, text) ==
  /\ Fields[name] # text
  /\ update([Fields EXCEPT ![name] = text])
  /\ UNCHANGED callVars

\* The texts typed into each field, besides its initial value.
Typed ==
  [revTrainings |-> {<<>>, <<"I", "n", "f", "i", "n", "i", "t", "y">>},
   revCamps |-> {<<"-", "2", "0", " ", "0", "0", "0", " ", "0", "0", "0", ",", "5">>},
   revRoyalty |-> {<<>>},
   revGoods |-> {<<"0">>},
   usnProfitExpenses |-> {<<"a", "b", "c">>},
   ausnProfitExpenses |-> {<<>>, <<"I", "n", "f", "i", "n", "i", "t", "y">>},
   prevYearRevenue |-> {<<>>, <<"1", "0", "NBSP", "0", "0", "0", " ", "0", "0", "0">>},
   vatThreshold |-> {<<"a", "b", "c">>},
   psnPatentCost |-> {<<>>}]

Texts(name) == Typed[name] \cup {InitialFields[name]}

setRevTrainings == \E text \in Texts("revTrainings") : onChange("revTrainings", text)

setRevCamps == \E text \in Texts("revCamps") : onChange("revCamps", text)

setRevRoyalty == \E text \in Texts("revRoyalty") : onChange("revRoyalty", text)

setRevGoods == \E text \in Texts("revGoods") : onChange("revGoods", text)

setUsnProfitExpenses ==
  \E text \in Texts("usnProfitExpenses") : onChange("usnProfitExpenses", text)

setAusnProfitExpenses ==
  \E text \in Texts("ausnProfitExpenses") : onChange("ausnProfitExpenses", text)

setPrevYearRevenue ==
  \E text \in Texts("prevYearRevenue") : onChange("prevYearRevenue", text)

setVatThreshold == \E text \in Texts("vatThreshold") : onChange("vatThreshold", text)

setPsnPatentCost == \E text \in Texts("psnPatentCost") : onChange("psnPatentCost", text)

\* The first render, with the useState initial values.
Mount(f, r) ==
  /\ revTrainings = f.revTrainings
  /\ revCamps = f.revCamps
  /\ revRoyalty = f.revRoyalty
  /\ revGoods = f.revGoods
  /\ usnProfitExpenses = f.usnProfitExpenses
  /\ ausnProfitExpenses = f.ausnProfitExpenses
  /\ prevYearRevenue = f.prevYearRevenue
  /\ vatThreshold = f.vatThreshold
  /\ psnPatentCost = f.psnPatentCost
  /\ totals = r.totals
  /\ usn6 = r.usn6
  /\ usn15 = r.usn15
  /\ ausn8 = r.ausn8
  /\ ausn20 = r.ausn20
  /\ hooks = r.hooks
  /\ isVatPayer = r.isVatPayer
  /\ best = r.best

MountState == Mount(InitialFields, Render(InitialFields, Unmounted))

Init == MountState /\ arg = Null /\ ret = Zero /\ pc = "idle"

Next ==
  \/ setRevTrainings
  \/ setRevCamps
  \/ setRevRoyalty
  \/ setRevGoods
  \/ setUsnProfitExpenses
  \/ setAusnProfitExpenses
  \/ setPrevYearRevenue
  \/ setVatThreshold
  \/ setPsnPatentCost

Spec == Init /\ [][Next]_vars

\* ------------------------------------------------- a call of parseNum

\* The characters of the enumerated argument strings.
Alphabet == {"0", "1", "5", " ", "NBSP", ",", ".", "-", "e", "x"}

\* Longer strings among the arguments.
LongStrings ==
  {<<"1", " ", "0", "0", "0", ",", "5", "0">>,
   <<"1", ",", "0", "0", "0", ",", "5", "0">>,
   <<"a", "b", "c">>,
   <<"N", "a", "N">>,
   <<"I", "n", "f", "i", "n", "i", "t", "y">>,
   <<"-", "I", "n", "f", "i", "n", "i", "t", "y">>,
   <<"1", "e", "9", "9", "9">>,
   <<"TAB", "1", "5", "LF">>,
   <<"0", "x", "1", "F">>}

\* Numbers among the arguments.
Numbers ==
  {NaN, PosInf, NegInf}
    \cup {Finite(m, e) : m \in -12..12, e \in {-8, -7, -2, 0, 1, 20, 21, 22}}

Arguments ==
  {Null, Undefined}
    \cup {Str(s) : s \in UNION {[1..n -> Alphabet] : n \in 0..MaxLen}}
    \cup {Str(s) : s \in LongStrings}
    \cup {Num(n) : n \in Numbers}

ParseInit == MountState /\ arg \in Arguments /\ ret = Zero /\ pc = "call"

\* parseNum(arg) is called and returns.
parseNumCall ==
  /\ pc = "call"
  /\ ret' = parseNum(arg)
  /\ pc' = "done"
  /\ UNCHANGED <<arg, fieldVars, renderVars>>

SpecParse == ParseInit /\ [][parseNumCall]_vars

\* ------------------------------------------------------------- properties

\* The totalTax of the i-th scenario of the list.
TotalTax(i) == scenarios[i].totalTax

\* The scenarios whose totalTax is less than or equal to every scenario's.
Minima == {i \in 1..4 : \A j \in 1..4 : Le(TotalTax(i), TotalTax(j))}

Least(S) == CHOOSE i \in S : \A j \in S : i <= j

Greatest(S) == CHOOSE i \in S : \A j \in S : j <= i

\* The fields that enter a tax all parse to zero.
AllZero ==
  \A name \in DOMAIN Fields \ {"prevYearRevenue", "vatThreshold"} :
    parseNum(Str(Fields[name])) = Zero

\* C1: for every content of the nine fields, best is one of the four
\* scenarios and its totalTax is less than or equal to the totalTax of each
\* of the four.
BestIsMinimum ==
  /\ \E i \in 1..4 : best = scenarios[i]
  /\ \A i \in 1..4 : Le(best.totalTax, TotalTax(i))

\* C2 as stated: when two or more scenarios share the minimum totalTax, best
\* is the first of them; with all inputs zero best is usn6.
FirstMinimumWins ==
  /\ Cardinality(Minima) >= 2 => best = scenarios[Least(Minima)]
  /\ AllZero => best.key = "usn6"

\* C2 as amended: when two or more scenarios share the minimum totalTax,
\* best is the last of them in the order usn6, usn15, ausn8, ausn20; with
\* all inputs zero best is ausn20.
LastMinimumWins ==
  /\ Cardinality(Minima) >= 2 => best = scenarios[Greatest(Minima)]
  /\ AllZero => best.key = "ausn20"

\* All inputs zero: the four totals are 0 and best is the last scenario.
LastMinimumWitness ==
  /\ AllZero
  /\ Minima = 1..4
  /\ best.key = "ausn20"

\* What the formulas give for the current field contents.
FreshTotals == computeTotals(Fields, totals.ref)

FreshVatPayer == computeIsVatPayer(Fields)

FreshScenarios ==
  <<computeUsn6(FreshTotals, psnPatentCost, FreshVatPayer),
    computeUsn15(FreshTotals, psnPatentCost, usnProfitExpenses, FreshVatPayer),
    computeAusn8(FreshTotals),
    computeAusn20(FreshTotals, ausnProfitExpenses)>>

\* C3: after any sequence of edits the totals, isVatPayer, the four
\* scenarios and best of the render equal what the formulas give for the
\* current field contents: no memoized value is stale.
NoStaleMemo ==
  /\ totals = FreshTotals
  /\ isVatPayer = FreshVatPayer
  /\ scenarios = FreshScenarios
  /\ best = reduce(FreshScenarios)

\* Fields of three dependency lists were edited: one of totals, one of
\* usn6 and usn15, one of usn15 alone; ausn20's own dependency was not.
NoStaleMemoWitness ==
  /\ revTrainings # InitialFields.revTrainings
  /\ psnPatentCost # InitialFields.psnPatentCost
  /\ usnProfitExpenses # InitialFields.usnProfitExpenses
  /\ ausnProfitExpenses = InitialFields.ausnProfitExpenses
  /\ scenarios = FreshScenarios

\* C4: when usnProfitExpenses exceeds taxable the USN 15% component is 0,
\* when ausnProfitExpenses exceeds total the totalTax of ausn20 is 0, and
\* neither amount is ever negative.
ProfitBaseFloored ==
  /\ Gt(parseNum(Str(usnProfitExpenses)), totals.taxable)
       => usn15.components.usn = Zero
  /\ Gt(parseNum(Str(ausnProfitExpenses)), totals.total)
       => ausn20.totalTax = Zero
  /\ ~Lt(usn15.components.usn, Zero)
  /\ ~Lt(ausn20.totalTax, Zero)

\* Both expenses exceed their revenue, and both amounts are 0.
ProfitBaseFlooredWitness ==
  /\ Gt(parseNum(Str(usnProfitExpenses)), totals.taxable)
  /\ Gt(parseNum(Str(ausnProfitExpenses)), totals.total)
  /\ usn15.components.usn = Zero
  /\ ausn20.totalTax = Zero

\* C5: isVatPayer is true exactly when parseNum(prevYearRevenue) is
\* strictly greater than parseNum(vatThreshold); when the two are equal it
\* is false and the VAT component of usn6 and usn15 is 0.
VatPayerStrict ==
  /\ isVatPayer <=> Lt(parseNum(Str(vatThreshold)), parseNum(Str(prevYearRevenue)))
  /\ parseNum(Str(prevYearRevenue)) = parseNum(Str(vatThreshold))
       => /\ ~isVatPayer
          /\ usn6.components.vat = Zero
          /\ usn15.components.vat = Zero

\* Equal parsed values from two unparseable or empty texts, with a taxable
\* amount on which VAT would otherwise be charged.
VatPayerStrictWitness ==
  /\ prevYearRevenue = <<>>
  /\ vatThreshold = <<"a", "b", "c">>
  /\ Gt(totals.taxable, Zero)
  /\ ~isVatPayer
  /\ usn6.components.vat = Zero

\* 5% of royalty + goods when isVatPayer, 0 otherwise.
VatOfTaxable ==
  IF isVatPayer
    THEN Mul(Add(parseNum(Str(revRoyalty)), parseNum(Str(revGoods))), Finite(5, -2))
  ELSE Zero

\* The VAT component is that of `taxable`, in usn6 and usn15 only.
VatOnTaxableOnly ==
  /\ usn6.components.vat = VatOfTaxable
  /\ usn15.components.vat = VatOfTaxable
  /\ DOMAIN ausn8.components = {"ausn"}
  /\ DOMAIN ausn20.components = {"ausn"}

\* An edit of trainings or camps leaves the VAT components as they are.
SportEditKeepsVat ==
  setRevTrainings \/ setRevCamps
    => /\ usn6.components.vat' = usn6.components.vat
       /\ usn15.components.vat' = usn15.components.vat

\* An edit of prevYearRevenue, vatThreshold or psnPatentCost leaves the
\* totalTax of ausn8 and ausn20 as it is.
ThresholdEditKeepsAusn ==
  setPrevYearRevenue \/ setVatThreshold \/ setPsnPatentCost
    => /\ ausn8.totalTax' = ausn8.totalTax
       /\ ausn20.totalTax' = ausn20.totalTax

\* C6: the VAT component of usn6 and usn15 is 5% of taxable when isVatPayer
\* and 0 otherwise, so an edit of trainings or camps never changes it; an
\* edit of prevYearRevenue, vatThreshold or psnPatentCost never changes the
\* totalTax of ausn8 or ausn20, which hold no VAT and no patent component.
VatFrame ==
  /\ []VatOnTaxableOnly
  /\ [][SportEditKeepsVat /\ ThresholdEditKeepsAusn]_vars

\* Trainings, camps and the patent cost were edited and VAT is charged: it
\* is still 5% of the initial taxable 7000000.
VatFrameWitness ==
  /\ revTrainings # InitialFields.revTrainings
  /\ revCamps # InitialFields.revCamps
  /\ psnPatentCost # InitialFields.psnPatentCost
  /\ isVatPayer
  /\ usn6.components.vat = Int2Num(350000)
  /\ usn15.components.vat = Int2Num(350000)

\* A string of white space only.
IsBlank(s) == \A i \in 1..Len(s) : s[i] \in {" ", "TAB", "LF", "CR", "NBSP"}

\* The claim's cleaning: white space removed, a comma made a decimal point.
RECURSIVE Cleaned(_, _)
Cleaned(s, commaSeen) ==
  IF s = <<>> THEN <<>>
  ELSE IF Head(s) \in {" ", "TAB", "LF", "CR", "NBSP"} THEN Cleaned(Tail(s), commaSeen)
  ELSE IF Head(s) = "," /\ ~commaSeen THEN <<".">> \o Cleaned(Tail(s), TRUE)
  ELSE <<Head(s)>> \o Cleaned(Tail(s), commaSeen)

IsDigits(s) == s # <<>> /\ \A i \in 1..Len(s) : s[i] \in Digit

\* digits, digits. , .digits or digits.digits
IsMantissa(s) ==
  \/ IsDigits(s)
  \/ \E i \in 1..Len(s) :
       /\ s[i] = "."
       /\ IsDigits(SubSeq(s, 1, i - 1) \o SubSeq(s, i + 1, Len(s)))

IsExponentPart(s) ==
  /\ s # <<>>
  /\ s[1] \in {"e", "E"}
  /\ \/ IsDigits(Tail(s))
     \/ Len(s) >= 2 /\ s[2] \in {"+", "-"} /\ IsDigits(SubSeq(s, 3, Len(s)))

IsUnsignedNumeral(s) ==
  \/ s = <<"I", "n", "f", "i", "n", "i", "t", "y">>
  \/ IsMantissa(s)
  \/ \E i \in 1..Len(s) :
       IsMantissa(SubSeq(s, 1, i)) /\ IsExponentPart(SubSeq(s, i + 1, Len(s)))

IsPrefixedNumeral(s) ==
  /\ Len(s) >= 3
  /\ s[1] = "0"
  /\ \/ s[2] \in {"x", "X"} /\ \A i \in 3..Len(s) : s[i] \in HexDigit
     \/ s[2] \in {"o", "O"} /\ \A i \in 3..Len(s) : s[i] \in {"0", "1", "2", "3", "4", "5", "6", "7"}
     \/ s[2] \in {"b", "B"} /\ \A i \in 3..Len(s) : s[i] \in {"0", "1"}

\* A string that is a valid number.
IsNumeral(s) ==
  \/ s = <<>>
  \/ IsUnsignedNumeral(s)
  \/ s # <<>> /\ s[1] \in {"+", "-"} /\ IsUnsignedNumeral(Tail(s))
  \/ IsPrefixedNumeral(s)

\* A plain decimal: an optional minus sign, digits and at most one point.
IsPlainDecimal(s) ==
  IF s # <<>> /\ s[1] = "-" THEN IsMantissa(Tail(s)) ELSE IsMantissa(s)

\* The integer the digits of a plain decimal spell, the point and the sign
\* left out, read from the left.
RECURSIVE Spelled(_, _)
Spelled(s, acc) ==
  IF s = <<>> THEN acc
  ELSE IF Head(s) \in {".", "-"} THEN Spelled(Tail(s), acc)
  ELSE Spelled(Tail(s), 10 * acc + DigitVal(Head(s)))

\* Number of digits after the point of a plain decimal.
FractionDigits(s) ==
  IF \E i \in 1..Len(s) : s[i] = "."
    THEN Len(s) - (CHOOSE i \in 1..Len(s) : s[i] = ".")
  ELSE 0

\* The number n is the one the plain decimal s denotes:
\* n * 10^(fraction digits) is the integer its digits spell, with its sign.
Denotes(s, n) ==
  /\ n.k = "fin"
  /\ n.e + FractionDigits(s) >= 0
  /\ n.m * Pow10(n.e + FractionDigits(s))
       = (IF s[1] = "-" THEN -1 ELSE 1) * Spelled(s, 0)

\* The text of a string argument, or of a number argument as String() gives it.
ArgText == IF arg.t = "string" THEN arg.s ELSE NumberToString(arg.n)

\* C7: parseNum returns 0 for null, undefined, the empty string, a string
\* of white space and every string that is no valid number once white space
\* is removed and a comma replaced by a point; for every other input the
\* number the cleaned string denotes ("1 000,50" gives 1000.5, "1,5" gives
\* 1.5); never NaN.
ParseNumTotal ==
  pc = "done" =>
    /\ ret.k \in {"fin", "inf"}
    /\ arg \in {Null, Undefined} => ret = Zero
    /\ arg.t = "string" /\ IsBlank(arg.s) => ret = Zero
    /\ arg.t \in {"string", "number"} /\ ~IsNumeral(Cleaned(ArgText, FALSE))
         => ret = Zero
    /\ arg.t = "string" /\ IsPlainDecimal(Cleaned(arg.s, FALSE))
         => Denotes(Cleaned(arg.s, FALSE), ret)
    /\ arg.t = "number" => ret = (IF arg.n = NaN THEN Zero ELSE arg.n)
    /\ arg = Str(<<"1", " ", "0", "0", "0", ",", "5", "0">>) => ret = Finite(10005, -1)
    /\ arg = Str(<<"1", ",", "5">>) => ret = Finite(15, -1)
    /\ arg = Str(<<"a", "b", "c">>) => ret = Zero

\* parseNum has returned 1000.5 for "1 000,50".
ParseNumTotalWitness ==
  /\ pc = "done"
  /\ arg = Str(<<"1", " ", "0", "0", "0", ",", "5", "0">>)
  /\ ret = Finite(10005, -1)

\* C8: with the initial field contents sport = 8000000, taxable = 7000000,
\* total = 15000000, isVatPayer is true, the totals are usn6 = 970000,
\* usn15 = 1420000, ausn8 = 1200000, ausn20 = 2760000, and best is usn6.
InitialRender ==
  Fields = InitialFields =>
    /\ totals.sport = Int2Num(8000000)
    /\ totals.taxable = Int2Num(7000000)
    /\ totals.total = Int2Num(15000000)
    /\ isVatPayer
    /\ usn6.totalTax = Int2Num(970000)
    /\ usn15.totalTax = Int2Num(1420000)
    /\ ausn8.totalTax = Int2Num(1200000)
    /\ ausn20.totalTax = Int2Num(2760000)
    /\ best = usn6
    /\ best.key = "usn6"

\* The render of the initial field contents.
InitialRenderWitness ==
  /\ Fields = InitialFields
  /\ best.key = "usn6"
  /\ best.totalTax = Int2Num(970000)

\* C9: the scenario list holds four scenarios with keys usn6, usn15, ausn8,
\* ausn20 in that order, and the totalTax of each is the sum of the amounts
\* in its components.
TotalIsSumOfComponents ==
  /\ Len(scenarios) = 4
  /\ [i \in 1..4 |-> scenarios[i].key] = <<"usn6", "usn15", "ausn8", "ausn20">>
  /\ \A i \in 1..2 :
       /\ DOMAIN scenarios[i].components = {"patent", "usn", "vat"}
       /\ scenarios[i].totalTax
            = Add(Add(scenarios[i].components.patent, scenarios[i].components.usn),
                  scenarios[i].components.vat)
  /\ \A i \in 3..4 :
       /\ DOMAIN scenarios[i].components = {"ausn"}
       /\ scenarios[i].totalTax = scenarios[i].components.ausn

\* After an edit, the three components of usn15 are all positive.
TotalIsSumOfComponentsWitness ==
  /\ Fields # InitialFields
  /\ Gt(usn15.components.patent, Zero)
  /\ Gt(usn15.components.usn, Zero)
  /\ Gt(usn15.components.vat, Zero)
  /\ Gt(usn15.totalTax, usn15.components.usn)

\* C10: for every content of the nine fields, also one that parses to a
\* negative number, no totalTax of the four scenarios, nor that of best, is
\* negative.
TaxNeverNegative ==
  /\ \A i \in 1..4 : ~Lt(TotalTax(i), Zero)
  /\ ~Lt(best.totalTax, Zero)

=============================================================================
